---- MODULE Spec2Model ----
(***************************************************************************)
(* BLEProvider (src/CUFabric/ble-context.js): the BLE connection and       *)
(* polling state machine of the CUFabric mobile app.                       *)
(*                                                                         *)
(* The provider is a React function component.  A render captures the     *)
(* current values of the state variables `sensor` and `sensorData` in the  *)
(* closures readSensorValue / emitCurrentValue; a state update re-renders  *)
(* the component and re-runs the effects whose dependencies changed.  The  *)
(* model keeps the captured values explicitly: a pending poll timer and an *)
(* in-flight read carry the `sensor` and `sensorData` of the render that   *)
(* created them.                                                           *)
(***************************************************************************)
EXTENDS Integers, Sequences, FiniteSets, TLC

\* ------------------------------------------------------------------ bounds
\* Characteristic reads issued in one run, with replies of any shape.
MaxReads == 4
\* Characteristic reads issued in one run of the long specification, whose
\* replies carry at least one byte: enough to fill the series and roll it.
MaxLongReads == 31
\* Harness specification: characteristic reads issued in one run, and
\* direct calls of readSensorValue.
MaxHarnessReads == 2
MaxDirectCalls == 2

\* --------------------------------------------------------- program values
\* `new1Data.length > 25`
Capacity == 25
\* useState(undefined): the absent handle
NoSensor == "undefined"
\* the sentinel returned by readSensorValue
Sentinel == 0 - 1
\* Uint8Array.from(buffer)[0] of an empty buffer is `undefined`
UndefinedValue == 256
\* Math.sin(undefined / 2) is NaN
NaN == 20000

Byte == 0 .. 255

\* Math.sin(b / 2) for b in 0..255, in units of 1e-4 (rounded).
SinTable ==
  << 0, 4794, 8415, 9975, 9093, 5985, 1411, -3508, -7568, -9775, -9589, -7055,
     -2794, 2151, 6570, 9380, 9894, 7985, 4121, -752, -5440, -8797, -10000, -8755,
     -5366, -663, 4202, 8038, 9906, 9349, 6503, 2065, -2879, -7118, -9614, -9756,
     -7510, -3425, 1499, 6055, 9129, 9968, 8367, 4716, -89, -4872, -8462, -9981,
     -9056, -5914, -1324, 3591, 7626, 9794, 9564, 6992, 2709, -2238, -6636, -9410,
     -9880, -7931, -4040, 840, 5514, 8839, 9999, 8711, 5291, 575, -4282, -8090,
     -9918, -9317, -6435, -1978, 2964, 7180, 9638, 9736, 7451, 3342, -1586, -6126,
     -9165, -9961, -8318, -4638, 177, 4949, 8509, 9986, 9018, 5842, 1236, -3673,
     -7683, -9811, -9538, -6929, -2624, 2324, 6702, 9440, 9866, 7877, 3959, -928,
     -5588, -8880, -9998, -8668, -5216, -486, 4362, 8142, 9929, 9285, 6367, 1891,
     -3048, -7241, -9661, -9716, -7392, -3258, 1674, 6195, 9200, 9953, 8268, 4560,
     -266, -5026, -8555, -9990, -8979, -5770, -1148, 3755, 7739, 9828, 9511, 6865,
     2538, -2410, -6768, -9469, -9851, -7822, -3878, 1016, 5661, 8920, 9995, 8623,
     5140, 398, -4441, -8193, -9939, -9251, -6299, -1804, 3132, 7302, 9684, 9695,
     7332, 3174, -1761, -6265, -9235, -9944, -8218, -4481, 354, 5102, 8601, 9994,
     8940, 5697, 1060, -3837, -7795, -9844, -9483, -6800, -2453, 2496, 6833, 9497,
     9836, 7767, 3796, -1104, -5734, -8960, -9992, -8578, -5064, -310, 4520, 8243,
     9948, 9217, 6230, 1717, -3216, -7362, -9705, -9672, -7271, -3090, 1848, 6333,
     9268, 9934, 8167, 4401, -442, -5178, -8646, -9996, -8900, -5624, -972, 3919,
     7850, 9859, 9454, 6735, 2367, -2581, -6897, -9524, -9820, -7711, -3714, 1192,
     5806, 8999, 9988, 8532, 4987, 221, -4599, -8293, -9957, -9183, -6160, -1630,
     3300, 7422, 9726, 9650 >>

\* Math.sin(value / 2); `value` is a byte or undefined
MathSinHalf(value) ==
  IF value = UndefinedValue THEN NaN ELSE SinTable[value + 1]

\* ----------------------------------------------------------------- base64
\* A base64 string is a sequence of sextets (the alphabet indices 0..63).
\* The peripheral's bytes as the BLE library hands them over (unpadded).
RECURSIVE Base64Encode(_)
Base64Encode(bytes) ==
  IF Len(bytes) = 0 THEN << >>
  ELSE IF Len(bytes) = 1
    THEN << bytes[1] \div 4, (bytes[1] % 4) * 16 >>
  ELSE IF Len(bytes) = 2
    THEN << bytes[1] \div 4,
            (bytes[1] % 4) * 16 + bytes[2] \div 16,
            (bytes[2] % 16) * 4 >>
  ELSE << bytes[1] \div 4,
          (bytes[1] % 4) * 16 + bytes[2] \div 16,
          (bytes[2] % 16) * 4 + bytes[3] \div 64,
          bytes[3] % 64 >> \o Base64Encode(SubSeq(bytes, 4, Len(bytes)))

\* new Buffer(str, 'base64'): the lenient decoder of the `buffer` package;
\* a string shorter than two characters decodes to the empty buffer.
RECURSIVE BufferFromBase64(_)
BufferFromBase64(str) ==
  IF Len(str) < 2 THEN << >>
  ELSE IF Len(str) = 2
    THEN << (str[1] * 4 + str[2] \div 16) % 256 >>
  ELSE IF Len(str) = 3
    THEN << (str[1] * 4 + str[2] \div 16) % 256,
            ((str[2] % 16) * 16 + str[3] \div 4) % 256 >>
  ELSE << (str[1] * 4 + str[2] \div 16) % 256,
          ((str[2] % 16) * 16 + str[3] \div 4) % 256,
          ((str[3] % 4) * 64 + str[4]) % 256 >>
        \o BufferFromBase64(SubSeq(str, 5, Len(str)))

\* (mutant) the last byte of the buffer instead of the first
FirstByteTakesLast(buffer) ==
  IF Len(buffer) = 0 THEN UndefinedValue ELSE buffer[Len(buffer)]

\* Uint8Array.from(buffer)[0]
FirstByte(buffer) ==
  IF Len(buffer) = 0 THEN UndefinedValue ELSE buffer[1]

\* (mutant) the shift is left out
New1DataNoShift(data, x) == Append(data, x)

\* (mutant) pop() instead of shift(): the newest sample is dropped
New1DataPop(data, x) ==
  LET appended == Append(data, x)
  IN  IF Len(appended) > Capacity THEN SubSeq(appended, 1, Capacity)
      ELSE appended

\* (mutant) the window rolls one sample too early
New1DataEarly(data, x) ==
  LET appended == Append(data, x)
  IN  IF Len(appended) >= Capacity THEN Tail(appended) ELSE appended

\* let new1Data = [...sensorData, x]; if (new1Data.length > 25) new1Data.shift()
New1Data(data, x) ==
  LET appended == Append(data, x)
  IN  IF Len(appended) > Capacity THEN Tail(appended) ELSE appended

\* ------------------------------------------------------------ environment
\* 'Clarkson', as a sequence of characters
NamePrefix == << "C", "l", "a", "r", "k", "s", "o", "n" >>

\* (mutant) includes() instead of startsWith()
StartsWithIncludes(name, prefix) ==
  \E k \in 1 .. Len(name) :
    /\ k + Len(prefix) - 1 <= Len(name)
    /\ SubSeq(name, k, k + Len(prefix) - 1) = prefix

\* device.name.startsWith('Clarkson')
StartsWith(name, prefix) ==
  /\ Len(name) >= Len(prefix)
  /\ SubSeq(name, 1, Len(prefix)) = prefix

\* What the scan callback can receive as `device`: no device, a device
\* without a name, with an empty name, and with matching and other names.
Advertisements ==
  { [device |-> FALSE, hasName |-> FALSE, name |-> << >>, id |-> "none"],
    [device |-> TRUE, hasName |-> FALSE, name |-> << >>, id |-> "dev0"],
    [device |-> TRUE, hasName |-> TRUE, name |-> << >>, id |-> "dev0"],
    [device |-> TRUE, hasName |-> TRUE, name |-> NamePrefix, id |-> "dev1"],
    [device |-> TRUE, hasName |-> TRUE,
     name |-> NamePrefix \o << " ", "2" >>, id |-> "dev2"],
    [device |-> TRUE, hasName |-> TRUE,
     name |-> << "c", "l", "a", "r", "k", "s", "o", "n" >>, id |-> "dev3"],
    [device |-> TRUE, hasName |-> TRUE,
     name |-> << "C", "l", "a", "r", "k" >>, id |-> "dev4"],
    [device |-> TRUE, hasName |-> TRUE,
     name |-> << "X" >> \o NamePrefix, id |-> "dev5"] }

NoAdvertisement ==
  [device |-> FALSE, hasName |-> FALSE, name |-> << >>, id |-> "init"]

\* The peripheral's readCounter characteristic: the values the counter
\* starts from when the model begins (254 makes the byte wrap around).
StartCounters == { 32, 254 }
\* Bytes that may follow the counter byte in the payload.
ExtraBytes == { 7, 255 }

\* characteristic.value of a read that resolves while the counter is c:
\* a missing value, a string too short to hold a byte, or the base64 string
\* of one to three bytes whose first is the counter.
PayloadBytes(c) ==
  { << c >> } \cup { << c, x >> : x \in ExtraBytes }
              \cup { << c, x, y >> : x \in ExtraBytes, y \in ExtraBytes }

Values(c) ==
  { [present |-> FALSE, str |-> << >>] }
  \cup { [present |-> TRUE, str |-> s] : s \in { << >>, << c \div 4 >> } }
  \cup { [present |-> TRUE, str |-> Base64Encode(b)] : b \in PayloadBytes(c) }

\* The values of a peripheral that always sends at least one byte.
ValuesWithByte(c) ==
  { [present |-> FALSE, str |-> << >>] }
  \cup { [present |-> TRUE, str |-> Base64Encode(b)] : b \in PayloadBytes(c) }

\* emitCurrentValue() has printed no 'Current value: ' line (yet).
NoEmission == [said |-> FALSE, value |-> 0]

\* Nothing has been logged by emitCurrentValue's catch.
NoLog == [said |-> FALSE, text |-> "undefined"]

\* setTimeout(rej, time) calls rej without an argument: the race rejects
\* with the reason `undefined`.
TimeoutReason == "undefined"

\* JavaScript truthiness of a rejection reason: `undefined` is falsy.
Truthy(error) == error # "undefined"

\* ------------------------------------------------------------------ state
VARIABLES
  mounted,        \* "initial" (rendered, effects not run), "mounted", "unmounted"
  cleanupSensor,  \* `sensor` as captured by the mount effect's cleanup closure
  scan,           \* "idle", "scanning", "stopped", "failed"
  lastAdv,        \* the advertisement the scan callback received last
  conn,           \* the connect sequence of the scan callback
  sensor,         \* useState(undefined)
  sensorData,     \* useState([0])
  timerQ,         \* pending setTimeout timers, all of delay time.current
  inflight,       \* readCharacteristicForDevice calls that have not settled
  readsIssued,    \* number of readCharacteristicForDevice calls so far
  directCalls,    \* number of calls of readSensorValue by the harness
  counter,        \* the peripheral's counter byte
  ret,            \* the value the last settled readSensorValue() resolved to
  emitted,        \* the 'Current value: ' line of the latest emitCurrentValue()
  logged,         \* what the catch of the latest emitCurrentValue() has logged
  cancels,        \* the cancelDeviceConnection calls issued, in order
  hist            \* every sample the series has held, oldest first

vars ==
  << mounted, cleanupSensor, scan, lastAdv, conn, sensor, sensorData, timerQ,
     inflight, readsIssued, directCalls, counter, ret, emitted, logged,
     cancels, hist >>

connVars == << scan, lastAdv, conn, cancels >>
pollVars ==
  << timerQ, inflight, readsIssued, directCalls, counter, ret,
     emitted, logged >>

Init ==
  /\ mounted = "initial"
  /\ cleanupSensor = NoSensor
  /\ scan = "idle"
  /\ lastAdv = NoAdvertisement
  /\ conn = [state |-> "none", id |-> "none"]
  /\ sensor = NoSensor
  /\ sensorData = << 0 >>
  /\ timerQ = << >>
  /\ inflight = { }
  /\ readsIssued = 0
  /\ directCalls = 0
  /\ counter \in StartCounters
  /\ ret = [id |-> 0, value |-> 0]
  /\ emitted = NoEmission
  /\ logged = NoLog
  /\ cancels = << >>
  /\ hist = << 0 >>

\* ---------------------------------------------------------------- effects
PollTimer(s, data) ==
  [kind |-> "poll", id |-> 0, dev |-> s, snap |-> data]
TimeoutTimer(n) ==
  [kind |-> "timeout", id |-> n, dev |-> NoSensor, snap |-> << >>]

\* useEffect(() => { if (sensor) setTimeout(emitCurrentValue, time.current) },
\*           [emitCurrentValue, sensor])
\* run after a render in which `sensor` or `sensorData` changed; the timer's
\* emitCurrentValue is the one of that render.
PollEffect(s, data, q) ==
  IF s # NoSensor THEN Append(q, PollTimer(s, data)) ELSE q

\* The mount effect: scanAndConnect() starts the scan; the returned cleanup
\* keeps the `sensor` of the render it was created in.  The poll effect runs
\* in the same commit.
Mount ==
  /\ mounted = "initial"
  /\ mounted' = "mounted"
  /\ scan' = "scanning"
  /\ cleanupSensor' = sensor
  /\ timerQ' = PollEffect(sensor, sensorData, timerQ)
  /\ UNCHANGED << lastAdv, conn, sensor, sensorData, inflight, readsIssued,
                  directCalls, counter, ret, emitted, logged, cancels, hist >>

\* (mutant) the cleanup also clears the pending timers
UnmountCancelsTimers ==
  /\ mounted = "mounted"
  /\ mounted' = "unmounted"
  /\ cancels' = IF cleanupSensor # NoSensor
                  THEN Append(cancels, [id |-> cleanupSensor, by |-> "cleanup"])
                  ELSE cancels
  /\ timerQ' = << >>
  /\ UNCHANGED << cleanupSensor, scan, lastAdv, conn, sensor, sensorData, hist,
                  inflight, readsIssued, directCalls, counter, ret, emitted, logged >>

\* The cleanup of the mount effect.
Unmount ==
  /\ mounted = "mounted"
  /\ mounted' = "unmounted"
  /\ cancels' = IF cleanupSensor # NoSensor
                  THEN Append(cancels, [id |-> cleanupSensor, by |-> "cleanup"])
                  ELSE cancels
  /\ UNCHANGED << cleanupSensor, scan, lastAdv, conn, sensor, sensorData, hist >>
  /\ UNCHANGED pollVars

\* ----------------------------------------------------------- scanAndConnect
\* setSensor(d): ignored once the component is unmounted; otherwise the
\* component re-renders with the new handle and the poll effect runs.
SetSensor(d) ==
  IF mounted = "mounted"
    THEN /\ sensor' = d
         /\ timerQ' = PollEffect(d, sensorData, timerQ)
    ELSE UNCHANGED << sensor, timerQ >>

\* if (device && device.name && device.name.startsWith('Clarkson'))
Matches(adv) ==
  /\ adv.device
  /\ adv.hasName
  /\ adv.name # << >>
  /\ StartsWith(adv.name, NamePrefix)

\* The scan callback is invoked with an error; the library stops the scan.
ScanError ==
  /\ scan = "scanning"
  /\ scan' = "failed"
  /\ UNCHANGED << mounted, cleanupSensor, lastAdv, conn, sensor, sensorData,
                  cancels, hist >>
  /\ UNCHANGED pollVars

\* (mutant) stopDeviceScan() is left out
DiscoverKeepsScanning(adv) ==
  /\ scan = "scanning"
  /\ lastAdv' = adv
  /\ IF Matches(adv)
       THEN conn' = [state |-> "connecting", id |-> adv.id]
       ELSE UNCHANGED conn
  /\ UNCHANGED << mounted, cleanupSensor, scan, sensor, sensorData, cancels,
                  hist >>
  /\ UNCHANGED pollVars

\* The scan callback is invoked with an advertisement.  The library delivers
\* advertisements only while the scan subscription exists.
Discover(adv) ==
  /\ scan = "scanning"
  /\ lastAdv' = adv
  /\ IF Matches(adv)
       THEN /\ scan' = "stopped"
            /\ conn' = [state |-> "connecting", id |-> adv.id]
       ELSE UNCHANGED << scan, conn >>
  /\ UNCHANGED << mounted, cleanupSensor, sensor, sensorData, cancels, hist >>
  /\ UNCHANGED pollVars

\* (mutant) the handle is published as soon as the device is connected
ConnectResolveSetsSensor ==
  /\ conn.state = "connecting"
  /\ conn' = [conn EXCEPT !.state = "discovering"]
  /\ SetSensor(conn.id)
  /\ UNCHANGED << mounted, cleanupSensor, scan, lastAdv, sensorData, inflight,
                  readsIssued, directCalls, counter, ret, emitted, logged,
                  cancels, hist >>

\* connectToDevice(device.id) resolves: discover the services.
ConnectResolve ==
  /\ conn.state = "connecting"
  /\ conn' = [conn EXCEPT !.state = "discovering"]
  /\ UNCHANGED << mounted, cleanupSensor, scan, lastAdv, sensor, sensorData,
                  cancels, hist >>
  /\ UNCHANGED pollVars

\* discoverAllServicesAndCharacteristicsForDevice(d.id) resolves: setSensor(d).
DiscoverResolve ==
  /\ conn.state = "discovering"
  /\ conn' = [conn EXCEPT !.state = "ready"]
  /\ SetSensor(conn.id)
  /\ UNCHANGED << mounted, cleanupSensor, scan, lastAdv, sensorData, inflight,
                  readsIssued, directCalls, counter, ret, emitted, logged,
                  cancels, hist >>

\* (mutant) the catch handler only logs, without the cleanup disconnect
ConnectRejectNoCancel ==
  /\ conn.state \in { "connecting", "discovering" }
  /\ conn' = [conn EXCEPT !.state = "failed"]
  /\ UNCHANGED << mounted, cleanupSensor, scan, lastAdv, sensor, sensorData,
                  cancels, hist >>
  /\ UNCHANGED pollVars

\* connectToDevice or the service discovery rejects: the catch handler
\* issues cancelDeviceConnection(device.id).
ConnectReject ==
  /\ conn.state \in { "connecting", "discovering" }
  /\ conn' = [conn EXCEPT !.state = "cleanup"]
  /\ cancels' = Append(cancels, [id |-> conn.id, by |-> "catch"])
  /\ UNCHANGED << mounted, cleanupSensor, scan, lastAdv, sensor, sensorData,
                  hist >>
  /\ UNCHANGED pollVars

\* (mutant) the scan is started again once the cleanup disconnect settled
CleanupSettleRetries(ok) ==
  /\ conn.state = "cleanup"
  /\ conn' = [conn EXCEPT !.state = IF ok THEN "failed" ELSE "failedTwice"]
  /\ scan' = "scanning"
  /\ UNCHANGED << mounted, cleanupSensor, lastAdv, sensor, sensorData,
                  cancels, hist >>
  /\ UNCHANGED pollVars

\* The cleanup disconnect settles (resolves or rejects): both are only logged.
CleanupSettle(ok) ==
  /\ conn.state = "cleanup"
  /\ conn' = [conn EXCEPT !.state = IF ok THEN "failed" ELSE "failedTwice"]
  /\ UNCHANGED << mounted, cleanupSensor, scan, lastAdv, sensor, sensorData,
                  cancels, hist >>
  /\ UNCHANGED pollVars

\* ------------------------------------------------------------------- poller
\* (mutant) the check of the handle is left out
ReadSensorValueUnguarded(s, data, raced) ==
  /\ readsIssued' = readsIssued + 1
  /\ inflight' = inflight \cup
       { [id |-> readsIssued + 1, dev |-> s, snap |-> data,
          raced |-> raced, timedOut |-> FALSE] }
  /\ UNCHANGED ret

\* readSensorValue() of a render whose captured handle is s and whose
\* captured series is data.  `raced` tells whether the call is wrapped in
\* timeout().  Without a handle it resolves to -1 at once; otherwise it
\* issues one characteristic read.
ReadSensorValue(s, data, raced) ==
  IF s = NoSensor
    THEN /\ ret' = [id |-> 0, value |-> Sentinel]
         /\ UNCHANGED << inflight, readsIssued >>
    ELSE /\ readsIssued' = readsIssued + 1
         /\ inflight' = inflight \cup
              { [id |-> readsIssued + 1, dev |-> s, snap |-> data,
                 raced |-> raced, timedOut |-> FALSE] }
         /\ UNCHANGED ret

\* The poll timer fires: emitCurrentValue() calls readSensorValue() and
\* races it against a timer of time.current milliseconds.
EmitCurrentValue(limit) ==
  /\ timerQ # << >>
  /\ Head(timerQ).kind = "poll"
  /\ readsIssued < limit
  /\ LET t == Head(timerQ)
     IN  /\ ReadSensorValue(t.dev, t.snap, TRUE)
         /\ timerQ' = Append(Tail(timerQ),
                        TimeoutTimer(IF t.dev = NoSensor THEN 0
                                     ELSE readsIssued + 1))
         /\ emitted' = IF t.dev = NoSensor
                         THEN [said |-> TRUE, value |-> Sentinel]
                         ELSE NoEmission
         /\ logged' = NoLog
  /\ UNCHANGED << mounted, cleanupSensor, sensor, sensorData, directCalls,
                  counter, hist >>
  /\ UNCHANGED connVars

\* (mutant) the timeout re-arms the poll loop
TimeoutFireRearms ==
  /\ timerQ # << >>
  /\ Head(timerQ).kind = "timeout"
  /\ timerQ' = PollEffect(sensor, sensorData, Tail(timerQ))
  /\ inflight' = { IF r.id = Head(timerQ).id /\ r.raced
                     THEN [r EXCEPT !.timedOut = TRUE] ELSE r : r \in inflight }
  /\ UNCHANGED << mounted, cleanupSensor, sensor, sensorData, readsIssued,
                  directCalls, counter, ret, emitted, logged, hist >>
  /\ UNCHANGED connVars

\* .catch(error => { if (error) console.log(error); }) of emitCurrentValue
CatchLog(error) ==
  logged' = IF Truthy(error) THEN [said |-> TRUE, text |-> error] ELSE logged

\* The timeout timer of read n fires: if the read has not settled, the race
\* rejects with `undefined` and emitCurrentValue's catch logs nothing.
TimeoutFire ==
  /\ timerQ # << >>
  /\ Head(timerQ).kind = "timeout"
  /\ timerQ' = Tail(timerQ)
  /\ inflight' = { IF r.id = Head(timerQ).id /\ r.raced
                     THEN [r EXCEPT !.timedOut = TRUE] ELSE r : r \in inflight }
  /\ UNCHANGED << mounted, cleanupSensor, sensor, sensorData, readsIssued,
                  directCalls, counter, ret, emitted, hist >>
  /\ IF \E r \in inflight : r.id = Head(timerQ).id /\ r.raced
       THEN CatchLog(TimeoutReason)
       ELSE UNCHANGED logged
  /\ UNCHANGED connVars

\* (mutant) the re-armed timer keeps the emitCurrentValue of the render
\* before the update, with the series of that render
SetSensorDataStaleTimer(new1Data, x) ==
  IF mounted = "mounted"
    THEN /\ sensorData' = new1Data
         /\ hist' = Append(hist, x)
         /\ timerQ' = PollEffect(sensor, sensorData, timerQ)
    ELSE UNCHANGED << sensorData, hist, timerQ >>

\* setSensorData(sensorData => new1Data): ignored once the component is
\* unmounted; otherwise the component re-renders and the poll effect runs.
SetSensorData(new1Data, x) ==
  IF mounted = "mounted"
    THEN /\ sensorData' = new1Data
         /\ hist' = Append(hist, x)
         /\ timerQ' = PollEffect(sensor, new1Data, timerQ)
    ELSE UNCHANGED << sensorData, hist, timerQ >>

\* (mutant) the value is emitted although the timeout has won
EmitResultAlways(r, value) ==
  emitted' = IF r.raced THEN [said |-> TRUE, value |-> value] ELSE emitted

\* 'Current value: ' + value, unless the timeout has won the race.
EmitResult(r, value) ==
  emitted' = IF r.raced /\ ~r.timedOut
               THEN [said |-> TRUE, value |-> value]
               ELSE emitted

\* The read r resolves with `characteristic.value` = v.  A missing value
\* makes `new Buffer` throw, which the catch turns into -1.
ReadResolve(r, v) ==
  /\ r \in inflight
  /\ v \in Values(counter)
  /\ inflight' = inflight \ { r }
  /\ counter' = (counter + 1) % 256
  /\ IF ~v.present
       THEN /\ ret' = [id |-> r.id, value |-> Sentinel]
            /\ EmitResult(r, Sentinel)
            /\ UNCHANGED << sensorData, hist, timerQ >>
       ELSE LET buffer == BufferFromBase64(v.str)
                value == FirstByte(buffer)
            IN  /\ SetSensorData(New1Data(r.snap, MathSinHalf(value)),
                                 MathSinHalf(value))
                /\ ret' = [id |-> r.id, value |-> value]
                /\ EmitResult(r, value)
  /\ UNCHANGED << mounted, cleanupSensor, sensor, readsIssued, directCalls,
                  logged >>
  /\ UNCHANGED connVars

\* (mutant) a rejected read records the sentinel as a sample
ReadRejectAppends(r) ==
  /\ r \in inflight
  /\ inflight' = inflight \ { r }
  /\ ret' = [id |-> r.id, value |-> Sentinel]
  /\ EmitResult(r, Sentinel)
  /\ SetSensorData(New1Data(r.snap, Sentinel), Sentinel)
  /\ UNCHANGED << mounted, cleanupSensor, sensor,
                  readsIssued, directCalls, counter, logged >>
  /\ UNCHANGED connVars

\* (mutant) a rejected read resets the handle
ReadRejectClearsSensor(r) ==
  /\ r \in inflight
  /\ inflight' = inflight \ { r }
  /\ ret' = [id |-> r.id, value |-> Sentinel]
  /\ EmitResult(r, Sentinel)
  /\ sensor' = NoSensor
  /\ UNCHANGED << mounted, cleanupSensor, sensorData, timerQ,
                  readsIssued, directCalls, counter, logged, hist >>
  /\ UNCHANGED connVars

\* The read r rejects: logged, readSensorValue resolves to -1.
ReadReject(r) ==
  /\ r \in inflight
  /\ inflight' = inflight \ { r }
  /\ ret' = [id |-> r.id, value |-> Sentinel]
  /\ EmitResult(r, Sentinel)
  /\ UNCHANGED << mounted, cleanupSensor, sensor, sensorData, timerQ,
                  readsIssued, directCalls, counter, logged, hist >>
  /\ UNCHANGED connVars

\* A direct call of the current render's readSensorValue(), as a consumer
\* or a test of the function makes it (no timeout around it).
CallReadSensorValue ==
  /\ directCalls < MaxDirectCalls
  /\ readsIssued < MaxHarnessReads
  /\ directCalls' = directCalls + 1
  /\ ReadSensorValue(sensor, sensorData, FALSE)
  /\ UNCHANGED << mounted, cleanupSensor, sensor, sensorData, timerQ, counter,
                  emitted, logged, hist >>
  /\ UNCHANGED connVars

\* ---------------------------------------------------------- specifications
Next ==
  \/ Mount
  \/ Unmount
  \/ ScanError
  \/ \E adv \in Advertisements : Discover(adv)
  \/ ConnectResolve
  \/ DiscoverResolve
  \/ ConnectReject
  \/ \E ok \in BOOLEAN : CleanupSettle(ok)
  \/ EmitCurrentValue(MaxReads)
  \/ TimeoutFire
  \/ \E r \in inflight : \E v \in Values(counter) : ReadResolve(r, v)
  \/ \E r \in inflight : ReadReject(r)

\* The provider as the app runs it.
Spec == Init /\ [][Next]_vars

NextHarness ==
  \/ Mount
  \/ Unmount
  \/ ScanError
  \/ \E adv \in Advertisements : Discover(adv)
  \/ ConnectResolve
  \/ DiscoverResolve
  \/ ConnectReject
  \/ \E ok \in BOOLEAN : CleanupSettle(ok)
  \/ EmitCurrentValue(MaxHarnessReads)
  \/ TimeoutFire
  \/ \E r \in inflight : \E v \in Values(counter) : ReadResolve(r, v)
  \/ \E r \in inflight : ReadReject(r)
  \/ CallReadSensorValue

NextLong ==
  \/ Mount
  \/ Unmount
  \/ ScanError
  \/ \E adv \in Advertisements : Discover(adv)
  \/ ConnectResolve
  \/ DiscoverResolve
  \/ ConnectReject
  \/ \E ok \in BOOLEAN : CleanupSettle(ok)
  \/ EmitCurrentValue(MaxLongReads)
  \/ TimeoutFire
  \/ \E r \in inflight : \E v \in ValuesWithByte(counter) : ReadResolve(r, v)
  \/ \E r \in inflight : ReadReject(r)

\* The provider polling a peripheral whose replies carry at least one byte,
\* long enough for the series to fill and roll.
SpecLong == Init /\ [][NextLong]_vars

\* The provider with readSensorValue also called directly.
SpecHarness == Init /\ [][NextHarness]_vars

\* ------------------------------------------------------------------ helpers
Min(a, b) == IF a < b THEN a ELSE b
LastN(seq, n) == SubSeq(seq, Len(seq) - n + 1, Len(seq))
PollTimers == { i \in DOMAIN timerQ : timerQ[i].kind = "poll" }
\* the sample the handler computes from characteristic.value = v
SampleOf(v) == MathSinHalf(FirstByte(BufferFromBase64(v.str)))

\* ------------------------------------------------------------------- claims
\* C1: in every reachable state the sample series sensorData holds at most
\* 25 samples.
SensorDataBounded == Len(sensorData) <= Capacity

\* C1 witness: the series is full and a further read has been applied to it.
SensorDataFullAfterAppend ==
  /\ Len(sensorData) = Capacity
  /\ Len(hist) > Capacity
  /\ mounted = "mounted"

\* C2: a read that resolves with a payload while the provider is mounted
\* leaves sensorData equal to the series before the update with the new
\* sample appended, the oldest sample dropped when the series was full.
FifoPerAppend ==
  [][\A r \in inflight : \A v \in Values(counter) :
       (ReadResolve(r, v) /\ v.present /\ mounted = "mounted")
         => sensorData' = IF Len(sensorData) < 25
                            THEN sensorData \o << SampleOf(v) >>
                            ELSE Tail(sensorData) \o << SampleOf(v) >>]_vars

\* C2 witness: an append to a full series has evicted the oldest sample.
EvictedOldest ==
  /\ Len(hist) = Capacity + 2
  /\ sensorData = SubSeq(hist, 3, Capacity + 2)
  /\ mounted = "mounted"

\* C3: after n successful polls producing s1..sn, sensorData is the last
\* min(n+1, 25) elements of [0, s1, ..., sn], in order.
SeriesIsSuffixOfHistory ==
  /\ Len(sensorData) = Min(Len(hist), 25)
  /\ \A i \in 1 .. Len(sensorData) :
       sensorData[i] = hist[Len(hist) - Len(sensorData) + i]

\* C3 witness: 30 successful reads of the counter bytes 32..61; the series
\* is s6..s30, the sines of the bytes 37..61.
ThirtyReads ==
  /\ readsIssued = 30
  /\ inflight = { }
  /\ Len(hist) = 31
  /\ sensorData = [i \in 1 .. 25 |-> SinTable[37 + i]]

\* C4: readSensorValue called while the handle is absent resolves to -1,
\* issues no characteristic read and leaves sensorData and the handle
\* unchanged.
AbsentHandleReturnsSentinel ==
  [][(CallReadSensorValue /\ sensor = NoSensor)
       => /\ ret'.value = 0 - 1
          /\ readsIssued' = readsIssued
          /\ inflight' = inflight
          /\ sensorData' = sensorData
          /\ sensor' = sensor]_vars

\* C4 witness: a direct call without a handle has returned -1 and the
\* series is still the initial one.
AbsentHandleCalled ==
  /\ directCalls > 0
  /\ sensor = NoSensor
  /\ ret = [id |-> 0, value |-> 0 - 1]
  /\ sensorData = << 0 >>
  /\ readsIssued = 0

\* C5: a read that resolves with the base64 string of the bytes b (one or
\* more) makes readSensorValue return b[1], whatever bytes follow it, and
\* (the provider being mounted) appends exactly one sample, sin(b[1] / 2).
DecodesFirstByte ==
  [][\A r \in inflight : \A b \in PayloadBytes(counter) :
       ReadResolve(r, [present |-> TRUE, str |-> Base64Encode(b)])
         => /\ ret' = [id |-> r.id, value |-> b[1]]
            /\ mounted = "mounted"
                 => /\ Len(hist') = Len(hist) + 1
                    /\ Len(sensorData') = Min(Len(sensorData) + 1, 25)
                    /\ sensorData'[Len(sensorData')] = SinTable[b[1] + 1]
                    /\ \A i \in 1 .. Len(sensorData') - 1 :
                         sensorData'[i] =
                           sensorData[Len(sensorData) + 1 - Len(sensorData') + i]
    ]_vars

\* C5 witness: the first read returned the byte 0x20 and appended sin(16).
ReadByte32 ==
  /\ ret = [id |-> 1, value |-> 32]
  /\ sensorData = << 0, 0 - 2879 >>

\* C6 (as claimed): a read that rejects, or resolves with a payload that
\* is missing or decodes to no byte, yields -1 and leaves sensorData as it
\* was.
ReadErrorYieldsSentinel ==
  [][\A r \in inflight :
       /\ ReadReject(r) => (ret'.value = 0 - 1 /\ sensorData' = sensorData)
       /\ \A v \in Values(counter) :
            (ReadResolve(r, v)
               /\ (~v.present \/ BufferFromBase64(v.str) = << >>))
              => (ret'.value = 0 - 1 /\ sensorData' = sensorData)]_vars

\* C7 (as claimed): a read that has lost the race against the timeout never
\* updates sensorData, also when it resolves afterwards.
TimedOutReadNeverUpdates ==
  [][\A r \in inflight : \A v \in Values(counter) :
       (r.timedOut /\ ReadResolve(r, v)) => sensorData' = sensorData]_vars

\* C7 (amended): when the timeout wins the race only the wrapper's result is
\* discarded.  The expiry of the timeout leaves sensorData alone and no
\* 'Current value' line is printed for the read, but the read is not
\* cancelled: when it later resolves with a payload while the provider is
\* mounted, its handler still replaces sensorData by the series captured at
\* issue time plus the new sample (the oldest evicted beyond 25).
TimedOutReadOnlyUnemitted ==
  [][/\ TimeoutFire => (sensorData' = sensorData /\ emitted' = emitted)
     /\ \A r \in inflight :
          /\ (r.timedOut /\ ReadReject(r))
               => (sensorData' = sensorData /\ emitted' = NoEmission)
          /\ \A v \in Values(counter) :
               (r.timedOut /\ ReadResolve(r, v))
                 => /\ emitted' = NoEmission
                    /\ (v.present /\ mounted = "mounted")
                         => /\ sensorData # sensorData'
                            /\ sensorData' =
                                 LastN(r.snap \o << SampleOf(v) >>,
                                       Min(Len(r.snap) + 1, 25))]_vars

\* C7 witness: the first read lost the race, resolved afterwards and its
\* sample is in the series, with no 'Current value' line printed.
LateReadApplied ==
  /\ readsIssued = 1
  /\ inflight = { }
  /\ ret.id = 1
  /\ ret.value \in Byte
  /\ emitted = NoEmission
  /\ sensorData = << 0, SinTable[ret.value + 1] >>

\* C8 (as claimed): once the provider is unmounted while a handle exists,
\* exactly one cancelDeviceConnection for the handle's id has been issued by
\* the cleanup.
TeardownDisconnects ==
  (mounted = "unmounted" /\ sensor # NoSensor)
    => Cardinality({ i \in DOMAIN cancels :
                       cancels[i] = [id |-> sensor, by |-> "cleanup"] }) = 1

\* C9 (as claimed): while the provider is mounted and the handle present the
\* poll loop is armed: a poll timer is pending or a read is in flight whose
\* completion re-arms it.
PollLoopArmed ==
  (mounted = "mounted" /\ sensor # NoSensor)
    => (PollTimers # { } \/ inflight # { })

\* C10: at most one characteristic read is in flight, and a poll timer (the
\* next read) is pending only when no read is in flight.
ReadsSequential ==
  Cardinality(inflight) + Cardinality(PollTimers) <= 1

\* C10 witness: a second read has lost the race against the timeout and is
\* still in flight; no further read has been scheduled.
TimedOutReadInFlight ==
  /\ readsIssued = 2
  /\ \E r \in inflight : r.timedOut /\ r.id = 2
  /\ timerQ = << >>

\* C11: once connectToDevice or the service discovery has rejected, the
\* handle is absent, exactly one cancelDeviceConnection has been issued for
\* the device's id (by the catch handler), and the connector is waiting for
\* that disconnect or has logged its outcome, a rejection included.
ConnectFailureCleansUp ==
  conn.state \in { "cleanup", "failed", "failedTwice" }
    => /\ sensor = NoSensor
       /\ Cardinality({ i \in DOMAIN cancels : cancels[i].id = conn.id }) = 1
       /\ \A i \in DOMAIN cancels :
            cancels[i].id = conn.id => cancels[i].by = "catch"
       /\ PollTimers = { } /\ inflight = { }

\* C11 witness: the connect sequence failed and the cleanup disconnect
\* rejected as well.
CleanupRejected ==
  /\ conn.state = "failedTwice"
  /\ sensor = NoSensor
  /\ cancels = << [id |-> conn.id, by |-> "catch"] >>

\* C12: a characteristic read, or the poll timer that issues it, exists only
\* after the scan has found the device and stopped, connectToDevice and then
\* the service discovery have resolved and the handle has been published;
\* every read goes to that handle.
ReadOnlyAfterPublication ==
  (readsIssued > 0 \/ inflight # { } \/ PollTimers # { })
    => /\ scan = "stopped"
       /\ conn.state = "ready"
       /\ sensor = conn.id
       /\ lastAdv.id = conn.id
       /\ \A r \in inflight : r.dev = sensor
       /\ \A i \in PollTimers : timerQ[i].dev = sensor

\* C12 witness: the first read is in flight, to the published handle.
FirstReadInFlight ==
  /\ readsIssued = 1
  /\ conn.state = "ready"
  /\ \E r \in inflight : r.id = 1 /\ r.dev = conn.id /\ ~r.timedOut

\* C13 (as claimed, for the teardown): once the provider is torn down the
\* exposed sensor is absent again.
HandleClearedAtTeardown ==
  mounted = "unmounted" => sensor = NoSensor

\* C13 (amended): the published handle is never cleared.  setSensor is only
\* ever called with the connected device, so once published, sensor keeps
\* its value through rejected reads (all the provider sees of a disconnected
\* peripheral), timeouts and the teardown.
HandleNeverCleared ==
  [][sensor # NoSensor => sensor' = sensor]_vars

\* C13 witness: a read has been rejected and the provider torn down, and the
\* handle is still the connected device.
HandleKeptAfterFailure ==
  /\ mounted = "unmounted"
  /\ ret = [id |-> 1, value |-> 0 - 1]
  /\ sensor # NoSensor
  /\ sensor = conn.id

\* C14: failure is terminal.  After a scan error, and after a failed
\* connect or service discovery, no step starts a scan or a connect, and
\* the handle stays absent.
FailureIsTerminal ==
  [][(scan = "failed" \/ conn.state \in { "cleanup", "failed", "failedTwice" })
       => /\ scan' = scan
          /\ conn'.id = conn.id
          /\ conn'.state \notin { "connecting", "discovering", "ready" }
          /\ sensor = NoSensor /\ sensor' = NoSensor]_vars

\* C14 witness: the connect sequence failed, its cleanup disconnect
\* resolved, and the provider was torn down later; nothing was retried.
FailedAndIdle ==
  /\ conn.state = "failed"
  /\ scan = "stopped"
  /\ sensor = NoSensor
  /\ mounted = "unmounted"
  /\ Len(cancels) = 1

\* C15 (as claimed): the teardown cancels the device scan, so after the
\* teardown no discovery starts a connect sequence.
TeardownStopsScan ==
  [][(mounted = "unmounted" /\ conn.state = "none")
       => conn'.state = "none"]_vars

\* C16: the scan callback stops the scan and starts connectToDevice exactly
\* for a device whose name is present and begins with the eight characters
\* of "Clarkson"; any other advertisement leaves the scan running and starts
\* no connect, and handle, series and disconnects stay as they were.
OnlyClarksonConnects ==
  [][\A adv \in Advertisements :
       Discover(adv)
         => IF /\ adv.device
               /\ adv.hasName
               /\ Len(adv.name) >= 8
               /\ \A i \in 1 .. 8 :
                    adv.name[i] = << "C", "l", "a", "r", "k", "s", "o", "n" >>[i]
              THEN /\ scan' = "stopped"
                   /\ conn' = [state |-> "connecting", id |-> adv.id]
                   /\ UNCHANGED << sensor, sensorData, cancels >>
              ELSE UNCHANGED << scan, conn, sensor, sensorData, cancels, timerQ,
                                inflight >>]_vars

\* C16 witness: a device named "XClarkson" has been seen and the scan is
\* still running, with no connect started.
OtherNameIgnored ==
  /\ lastAdv.id = "dev5"
  /\ scan = "scanning"
  /\ conn.state = "none"
  /\ sensor = NoSensor

\* C17: sensorData changes only in a step in which a characteristic read
\* resolves with a value and its .then handler runs; every other step (scan
\* discovery and error, the connect sequence and its cleanup, publication of
\* the handle, poll timer, timeout, rejected read, read without a value,
\* mount and teardown) leaves it as it is.
OnlyResolvedReadWrites ==
  [][sensorData' # sensorData
       => \E r \in inflight : \E v \in Values(counter) :
            /\ v.present
            /\ ReadResolve(r, v)
            /\ sensorData' = New1Data(r.snap, SampleOf(v))]_vars

\* C17 witness: publication, poll, timeout, a rejected read and the
\* teardown have all happened and the series is still the initial one.
SeriesUntouchedByFailures ==
  /\ mounted = "unmounted"
  /\ sensor # NoSensor
  /\ readsIssued = 1
  /\ ret = [id |-> 1, value |-> 0 - 1]
  /\ emitted = NoEmission
  /\ timerQ = << >>
  /\ sensorData = << 0 >>

\* C18: the teardown leaves timers and reads as they are; after it a
\* pending poll timer still fires emitCurrentValue, which issues a read to
\* the handle the timer captured, and a read in flight still settles and
\* runs its handler (readSensorValue still returns).
TeardownKeepsPollerWork ==
  [][/\ Unmount => (timerQ' = timerQ /\ inflight' = inflight)
     /\ (mounted = "unmounted" /\ timerQ # << >> /\ readsIssued < MaxReads)
          => (Head(timerQ).kind = "poll"
                => /\ ENABLED EmitCurrentValue(MaxReads)
                   /\ EmitCurrentValue(MaxReads)
                        => \E r \in inflight' \ inflight :
                             /\ r.dev = Head(timerQ).dev
                             /\ r.dev # NoSensor)
     /\ mounted = "unmounted"
          => \A r \in inflight :
               /\ ENABLED ReadReject(r)
               /\ \A v \in Values(counter) :
                    ReadResolve(r, v) => ret'.id = r.id]_vars

\* C18 witness: a read has resolved with a byte after the teardown: its
\* handler ran and returned the byte, and the update was ignored.
ReadCompletedAfterTeardown ==
  /\ mounted = "unmounted"
  /\ readsIssued = 1
  /\ inflight = { }
  /\ ret.id = 1
  /\ ret.value \in Byte
  /\ hist = << 0 >>

\* C19: with the single publication of the handle, the series captured by
\* every read in flight, timed out or not, and by every pending poll timer
\* is the current sensorData, so the update a read applies when it resolves
\* extends the current series and loses no sample.
SnapshotIsCurrent ==
  /\ \A r \in inflight : r.snap = sensorData
  /\ \A i \in PollTimers : timerQ[i].snap = sensorData

\* C19 witness: the third read has lost the race against the timeout and
\* is in flight with the series the two reads before it have extended.
TimedOutReadHoldsCurrentSeries ==
  /\ readsIssued = 3
  /\ Len(sensorData) = 3
  /\ mounted = "mounted"
  /\ \E r \in inflight : r.id = 3 /\ r.timedOut /\ r.snap = sensorData

\* C20: at most one connect sequence is started.  A connect sequence exists
\* only with the scan stopped, and once one is started no step starts
\* another: its device stays the same, it never goes back to connecting and
\* a published sequence is not touched again.
OneConnectSequence ==
  [][/\ conn'.state # "none" => scan' = "stopped"
     /\ conn.state # "none"
          => /\ conn'.id = conn.id
             /\ conn'.state = "connecting" => conn.state = "connecting"
             /\ lastAdv' = lastAdv
     /\ conn.state = "ready" => conn' = conn]_vars

\* C20 witness: the device "Clarkson 2" was found after other
\* advertisements, the scan is stopped and the handle published for it.
SecondDevicePublished ==
  /\ lastAdv.id = "dev2"
  /\ scan = "stopped"
  /\ conn = [state |-> "ready", id |-> "dev2"]
  /\ sensor = "dev2"
  /\ readsIssued = 0

\* C21: when the timeout wins the race in emitCurrentValue (its timer fires
\* while the raced read has not settled), the wrapper logs the timeout and
\* no 'Current value' line is printed for that attempt.
TimeoutIsLoggedAndUnemitted ==
  [][(/\ TimeoutFire
      /\ \E r \in inflight : r.id = Head(timerQ).id /\ r.raced)
       => (logged'.said /\ emitted' = NoEmission)]_vars

====
